---- MODULE Spec2Model ----
(***************************************************************************)
(* Model of the resilience layer of the prompt bot:                        *)
(*   - the persistent per-user token bucket  (utils/database.py)           *)
(*   - the rate-limit file and its loads and saves (utils/database.py)     *)
(*   - the membership cache with TTL         (utils/database.py)           *)
(*   - the GigaChat client with retries      (utils/gigachat_api.py)       *)
(*                                                                         *)
(* Numbers.  The code computes with floats.  Token amounts are modelled    *)
(* exactly as integers counted in 1/TokenUnit of a token, clock readings   *)
(* as whole seconds, and a wait (a quotient) as the pair <<num, den>>.     *)
(***************************************************************************)
EXTENDS Integers, Sequences, FiniteSets, TLC

\* ---------------------------------------------------------------- bounds
MaxTime == 5
MaxCapacity == 3
MaxRefill == 2
MaxDebt == 2

\* ------------------------------------------------------ program constants
TokenUnit == 2
DefaultCapacity == 30
FallbackWait == 5

DefaultRefill == TokenUnit \div 2
DefaultCost == 1 * TokenUnit

Users == {"u1", "u2"}
Watched == "u1"
MemberUsers == {Watched}
Absent == [absent |-> TRUE]

Max(a, b) == IF a >= b THEN a ELSE b
Min(a, b) == IF a <= b THEN a ELSE b

VARIABLES
    clock,           \* time.time(): the wall clock, in seconds
    capacity,        \* TB_CAPACITY, in token units
    refill_per_sec,  \* TB_REFILL_PER_SEC, in token units per second
    cost,            \* cost of one request, in token units
    rate_state,      \* data/rate_limits.json: user -> Absent or [tokens, updated]
    rate_file,       \* what data/rate_limits.json holds: a "document" (rate_state),
                     \* a "partial" text, nothing ("empty"), or it is "missing"
    running,         \* the user whose allow_request_token_bucket call is between
                     \* its load and its save, or "none"
    loaded,          \* user -> NoLoad or what _load_rate_state returned to its call
    written,         \* history: the document handed to the last save, if that save
                     \* completed and nothing has written since
    js_ret,          \* what the last load_json_data call found and returned
    tb_ret,          \* what the last allow_request_token_bucket call returned
    burst,           \* history: calls of Watched so far, all at one clock reading
    promise,         \* history: the pending denial of Watched with the earliest retry
                     \* time, and how many denials followed it (counted up to 2)
    watch,           \* history: what the last call of Watched was (due, retry, made
                     \* at a clock reading below the stored one)
    FAIL_OPEN,       \* SUBSCRIPTION_FAIL_OPEN
    SUB_CACHE_TTL,   \* SUBSCRIPTION_CACHE_TTL, in seconds
    sub_cache,       \* _SUB_CACHE: <<user, chat>> -> NoItem or [status, ts]
    chat_resolve_cache,  \* _CHAT_RESOLVE_CACHE: "@name" -> NoChat or chat id
    ms_ret,          \* what the last check_subscription call did and returned
    auth_key,        \* whether GIGACHAT_AUTHORIZATION_KEY is set
    token_cache,     \* token_cache: NoLease or [token, alive]
    issued,          \* how many access tokens the OAuth endpoint has issued
    started,         \* how many gigachat_request calls have started
    call,            \* caller -> where its gigachat_request call stands
    redundant,       \* history: how many issued tokens replaced a cached token that
                     \* was still alive
    banned_file,     \* data/banned_users.txt: its lines
    ban_done,        \* history: the users for whom add_banned_user has returned
    user_last_request,  \* user_last_request[Watched]: NoTime (datetime.min) or the
                     \* clock reading of the last update let through
    req,             \* where the handler of the current update stands, and the
                     \* stages it has been through
    obs              \* history of the call of WatchedCaller: requests sent, seconds
                     \* slept, whether every completion request timed out

storeVars == <<rate_file, running, loaded, written, js_ret>>
bucketVars ==
    <<capacity, refill_per_sec, cost, rate_state, tb_ret, burst, promise, watch, storeVars>>
memberVars == <<FAIL_OPEN, SUB_CACHE_TTL, sub_cache, chat_resolve_cache, ms_ret>>
clientVars == <<auth_key, token_cache, issued, started, call, redundant, obs>>
flowVars == <<banned_file, ban_done, user_last_request, req>>
vars == <<clock, bucketVars, memberVars, clientVars, flowVars>>

\* ------------------------------------------------------------ the clock
\* time.time() is the wall clock: it advances, and it may be set back.
Tick ==
    /\ clock < MaxTime
    /\ clock' = clock + 1
    /\ UNCHANGED <<bucketVars, memberVars, clientVars, flowVars>>

ClockSetBack ==
    /\ \E t \in 0..(clock - 1) : clock' = t
    /\ UNCHANGED <<bucketVars, memberVars, clientVars, flowVars>>

\* -------------------------------------------------------- token bucket
Capacities == 1..MaxCapacity
RefillRates == (0 - MaxRefill)..MaxRefill

NoCall == [user |-> "none"]

\* state.get(user_key, {"tokens": capacity, "updated": now})
UserState(state, u, now) ==
    IF state[u] = Absent THEN [tokens |-> capacity, updated |-> now] ELSE state[u]

\* delta = max(0.0, now - updated)
Delta(now, updated) == Max(0, now - updated)

\* tokens = min(capacity, tokens + delta * refill_per_sec)
RefilledNoCap(tokens, delta) == tokens + delta * refill_per_sec
Refilled(tokens, delta) == Min(capacity, tokens + delta * refill_per_sec)

\* if tokens >= cost
AdmitStrict(tokens) == tokens > cost
Admit(tokens) == tokens >= cost

\* wait = deficit / refill_per_sec if refill_per_sec > 0 else 5.0
Wait(deficit) ==
    IF refill_per_sec > 0 THEN <<deficit, refill_per_sec>> ELSE <<FallbackWait, 1>>

\* The stored entry and the returned pair of one call.
DeniedDropsRefill(u, user_state, tokens, now) ==
    [entry |-> [tokens |-> user_state.tokens, updated |-> now],
     allowed |-> FALSE, wait |-> Wait(cost - tokens)]
Denied(u, user_state, tokens, now) ==
    [entry |-> [tokens |-> tokens, updated |-> now],
     allowed |-> FALSE, wait |-> Wait(cost - tokens)]

AdmittedStampsLater(tokens, now) ==
    [entry |-> [tokens |-> tokens - cost, updated |-> now + 1],
     allowed |-> TRUE, wait |-> <<0, 1>>]
Admitted(tokens, now) ==
    [entry |-> [tokens |-> tokens - cost, updated |-> now],
     allowed |-> TRUE, wait |-> <<0, 1>>]

TryAdmit(state, u, now) ==
    LET user_state == UserState(state, u, now)
        tokens == Refilled(user_state.tokens, Delta(now, user_state.updated))
    IN  IF Admit(tokens) THEN Admitted(tokens, now)
        ELSE Denied(u, user_state, tokens, now)

\* now - at >= num / den, for den > 0
Elapsed(now, p) == (now - p.at) * p.wait[2] >= p.wait[1]

\* p promises a retry earlier than q does
Earlier(p, q) == p.at * p.wait[2] + p.wait[1] < q.at * q.wait[2] + q.wait[1]

NoPromise == [none |-> TRUE]
NoWatch ==
    [due |-> FALSE, retry |-> FALSE, allowed |-> FALSE, wait |-> <<0, 1>>, between |-> 0,
     back |-> FALSE]

\* How many calls in a row a full bucket admits with no time elapsing.
BurstSize == capacity \div cost

\* ----------------------------------------------------- the rate-limit file
NoLoad == [none |-> TRUE]
NoDoc == [none |-> TRUE]
\* {}
EmptyDoc == [u \in Users |-> Absent]

\* json.dump writes a float by its repr, json.load reads it back: the text of
\* x counted in 1/unit is its whole part and its fraction.
FormatFloatAsInt(x, unit) == <<x \div unit, 0>>
FormatFloat(x, unit) == <<x \div unit, x % unit>>
ParseFloat(t, unit) == t[1] * unit + t[2]

\* json.dump(state, f): one member per key of the dict
DumpJson(state) ==
    [u \in {v \in Users : state[v] # Absent} |->
        [tokens |-> FormatFloat(state[u].tokens, TokenUnit),
         updated |-> FormatFloat(state[u].updated, 1)]]

\* json.load(f) of a complete text
ParseJson(text) ==
    [u \in Users |->
        IF u \in DOMAIN text
        THEN [tokens |-> ParseFloat(text[u].tokens, TokenUnit),
              updated |-> ParseFloat(text[u].updated, 1)]
        ELSE Absent]

\* ensure_data_files(): a missing rate file is created holding {}
Ensured(file) == IF file = "missing" THEN "document" ELSE file

\* _load_rate_state(): json.load of the file, {} when it raises
LoadRateState == IF rate_file \in {"partial", "empty"} THEN EmptyDoc ELSE rate_state

AllowRequest(u) ==
    LET now == clock
        state == LoadRateState
        r == TryAdmit(state, u, now)
        saved == [state EXCEPT ![u] = r.entry]
        fresh == rate_state[u] = Absent
        due == promise # NoPromise /\ Elapsed(now, promise)
        mine == [at |-> now, wait |-> r.wait, later |-> 0]
        nth == IF fresh THEN 1
               ELSE IF burst \in 1..BurstSize /\ rate_state[u].updated = now
                    THEN burst + 1 ELSE 0
        retry == /\ ~fresh
                 /\ burst = BurstSize + 1
                 /\ now >= rate_state[u].updated + 2
    IN  /\ r.entry.tokens >= 0 - MaxDebt
        /\ running = "none"
        /\ rate_state' = ParseJson(DumpJson(saved))
        /\ rate_file' = "document"
        /\ written' = saved
        /\ tb_ret' = [user |-> u, allowed |-> r.allowed, wait |-> r.wait]
        /\ IF u = Watched
           THEN /\ burst' = nth
                /\ promise' = IF r.allowed THEN NoPromise
                              ELSE IF promise = NoPromise \/ due THEN mine
                              ELSE IF Earlier(mine, promise) THEN mine
                              ELSE [promise EXCEPT !.later = Min(2, @ + 1)]
                /\ watch' = [due |-> due, retry |-> retry, allowed |-> r.allowed,
                          wait |-> r.wait, between |-> IF due THEN promise.later ELSE 0,
                          back |-> ~fresh /\ now < rate_state[u].updated]
           ELSE UNCHANGED <<burst, promise, watch>>
        /\ UNCHANGED <<running, loaded, js_ret>>
        /\ UNCHANGED <<capacity, refill_per_sec, cost>>

\* A call of allow_request_token_bucket on its own.
allow_request_token_bucket(u) ==
    /\ AllowRequest(u)
    /\ UNCHANGED <<clock, memberVars, clientVars, flowVars>>

\* ----------------------------------- the admission check, step by step
\* allow_request_token_bucket is a plain function: between its load (line 241)
\* and its save (lines 256, 262) there is no await, so the coroutine that
\* called it keeps the event loop.
HolderYields(u) == "none"
Holder(u) == u

\* Lines 241-243: state = _load_rate_state(); now = time.time()
BeginAdmission(u) ==
    /\ running = "none"
    /\ loaded[u] = NoLoad
    /\ loaded' = [loaded EXCEPT ![u] =
                      [state |-> LoadRateState, seen |-> rate_file, now |-> clock]]
    /\ rate_file' = Ensured(rate_file)
    /\ running' = Holder(u)
    /\ UNCHANGED <<capacity, refill_per_sec, cost, rate_state, tb_ret, burst, promise,
                   watch, written, js_ret>>
    /\ UNCHANGED <<clock, memberVars, clientVars, flowVars>>

\* Lines 245-263: the refill, the decision, and _save_rate_state(state).
EndAdmission(u) ==
    LET r == TryAdmit(loaded[u].state, u, loaded[u].now)
        saved == [loaded[u].state EXCEPT ![u] = r.entry]
    IN  /\ loaded[u] # NoLoad
        /\ running = Holder(u)
        /\ r.entry.tokens >= 0 - MaxDebt
        /\ rate_state' = ParseJson(DumpJson(saved))
        /\ rate_file' = "document"
        /\ written' = saved
        /\ tb_ret' = [user |-> u, allowed |-> r.allowed, wait |-> r.wait]
        /\ loaded' = [loaded EXCEPT ![u] = NoLoad]
        /\ running' = "none"
        /\ UNCHANGED <<capacity, refill_per_sec, cost, burst, promise, watch, js_ret>>
        /\ UNCHANGED <<clock, memberVars, clientVars, flowVars>>

\* open(RATE_FILE, 'w') truncates the file and json.dump writes it piece by
\* piece: a write error (logged, lines 227-228) or the end of the process
\* leaves the file empty or holding the beginning of the text.
Torn == {"empty", "partial"}

SaveInterrupted(u, left, crash) ==
    LET r == TryAdmit(loaded[u].state, u, loaded[u].now)
    IN  /\ loaded[u] # NoLoad
        /\ running = Holder(u)
        /\ rate_state' = EmptyDoc
        /\ rate_file' = left
        /\ written' = NoDoc
        /\ tb_ret' = IF crash THEN NoCall
                     ELSE [user |-> u, allowed |-> r.allowed, wait |-> r.wait]
        /\ loaded' = [loaded EXCEPT ![u] = NoLoad]
        /\ running' = "none"
        /\ UNCHANGED <<capacity, refill_per_sec, cost, burst, promise, watch, js_ret>>
        /\ UNCHANGED <<clock, memberVars, clientVars, flowVars>>

\* load_json_data(RATE_FILE): the file is read if it exists and is not empty;
\* when json.load raises, the default {} is written and returned.  The lock
\* is free whenever it is asked for (no holder awaits), so the call runs
\* without giving up the event loop.
ResetNever(file) == file
Reset(file) == IF file = "partial" THEN "document" ELSE file

load_json_data ==
    LET file == Ensured(rate_file)
    IN  /\ running = "none"
        /\ js_ret' = [state |-> IF file = "document" THEN rate_state ELSE EmptyDoc,
                      seen |-> rate_file]
        /\ rate_file' = Reset(file)
        /\ written' = IF Reset(file) # file THEN NoDoc ELSE written
        /\ UNCHANGED <<capacity, refill_per_sec, cost, rate_state, tb_ret, burst, promise,
                       watch, running, loaded>>
        /\ UNCHANGED <<clock, memberVars, clientVars, flowVars>>

\* The documents save_json_data is called with.
OtherDocs == {EmptyDoc, [EmptyDoc EXCEPT ![Watched] = [tokens |-> 1, updated |-> 0]]}

\* save_json_data(RATE_FILE, data)
save_json_data(data) ==
    /\ running = "none"
    /\ rate_state' = ParseJson(DumpJson(data))
    /\ rate_file' = "document"
    /\ written' = data
    /\ UNCHANGED <<capacity, refill_per_sec, cost, tb_ret, burst, promise, watch,
                   running, loaded, js_ret>>
    /\ UNCHANGED <<clock, memberVars, clientVars, flowVars>>

\* save_json_data cut short in the same way (lines 77-79).
SaveJsonInterrupted(left) ==
    /\ running = "none"
    /\ rate_state' = EmptyDoc
    /\ rate_file' = left
    /\ written' = NoDoc
    /\ UNCHANGED <<capacity, refill_per_sec, cost, tb_ret, burst, promise, watch,
                   running, loaded, js_ret>>
    /\ UNCHANGED <<clock, memberVars, clientVars, flowVars>>

\* ------------------------------------------------------ membership cache
MaxTtl == 2

Chats == {"c1", "c2"}
NoChat == "None"
NoItem == [none |-> TRUE]

\* channel_id as configured: a number, an "@name" to resolve, or a string that
\* is neither.
NumericRef == "-1001"
NameRef == "@channel"
BadRef == "channel"
Refs == {NumericRef, NameRef, BadRef}

\* ALLOWED_STATUSES
ALLOWED_STATUSES == {"member", "administrator", "creator", "restricted"}
\* what getattr(member, "status", None) can be
Statuses == ALLOWED_STATUSES \cup {"left", "kicked", "None"}

\* telegram.error: the classes check_subscription names, and their base classes
\* (BadRequest and TimedOut derive from NetworkError).
Raised == {"Forbidden", "TimedOut", "NetworkError", "BadRequest", "TelegramError"}
BaseClass(c) ==
    CASE c = "BadRequest" -> "NetworkError"
      [] c = "TimedOut" -> "NetworkError"
      [] c = "NetworkError" -> "TelegramError"
      [] c = "Forbidden" -> "TelegramError"
      [] c = "TelegramError" -> "Exception"
      [] OTHER -> "object"

RECURSIVE IsInstance(_, _)
IsInstance(c, cls) ==
    IF c = cls THEN TRUE
    ELSE IF c = "object" THEN FALSE
    ELSE IsInstance(BaseClass(c), cls)

\* return True if FAIL_OPEN else False
FallbackClosed == FALSE
Fallback == FAIL_OPEN

\* The except clauses of check_subscription, in source order.
ExceptClauses ==
    << [classes |-> {"Forbidden"}, result |-> Fallback],
       [classes |-> {"TimedOut", "NetworkError"}, result |-> Fallback],
       [classes |-> {"BadRequest"}, result |-> FALSE],
       [classes |-> {"Exception"}, result |-> FALSE] >>

Catches(i, exc) == \E cls \in ExceptClauses[i].classes : IsInstance(exc, cls)

\* The first clause that matches is the one that runs.
OnError(exc) ==
    LET i == CHOOSE k \in 1..Len(ExceptClauses) :
                 /\ Catches(k, exc)
                 /\ \A j \in 1..(k - 1) : ~Catches(j, exc)
    IN  ExceptClauses[i].result

\* time.time() - ts <= SUB_CACHE_TTL
FreshAlways(now, ts) == TRUE
FreshStrict(now, ts) == now - ts < SUB_CACHE_TTL
Fresh(now, ts) == now - ts <= SUB_CACHE_TTL

\* _cache_get: the cached status ("True", "False") or "None"; an expired item
\* is dropped.
CacheGetValue(cache, key, now) ==
    IF cache[key] = NoItem THEN "None"
    ELSE IF Fresh(now, cache[key].ts)
         THEN (IF cache[key].status THEN "True" ELSE "False")
         ELSE "None"

CacheGetCache(cache, key, now) ==
    IF cache[key] # NoItem /\ ~Fresh(now, cache[key].ts)
    THEN [cache EXCEPT ![key] = NoItem]
    ELSE cache

\* _cache_set
CacheSetPositive(cache, key, status, now) ==
    [cache EXCEPT ![key] = [status |-> TRUE, ts |-> now]]
CacheSet(cache, key, status, now) ==
    [cache EXCEPT ![key] = [status |-> status, ts |-> now]]

\* The except clauses return without a call of _cache_set.
CachedFallback(cache, key, status, now) == CacheSet(cache, key, status, now)
Uncached(cache, key, status, now) == cache

\* if channel_id in _CHAT_RESOLVE_CACHE
ResolvedNever(ref) == FALSE
Resolved(ref) == chat_resolve_cache[ref] # NoChat

\* if cached is True: return True
CacheHitAny(cached) == cached # "None"
CacheHit(cached) == cached = "True"

\* History: what the cache holds for a key when a call starts; an entry is
\* expired once now - observedAt > ttl.
Before(cache, key, now) ==
    IF cache[key] = NoItem THEN "absent"
    ELSE IF now - cache[key].ts <= SUB_CACHE_TTL
         THEN (IF cache[key].status THEN "positive" ELSE "negative")
         ELSE (IF cache[key].status THEN "expired positive" ELSE "expired negative")

\* _resolve_chat_id, the chat a reference stands for
ChatOf(ref) == IF ref = NumericRef THEN "c1" ELSE "c2"

\* check_subscription from the resolved chat_id on (lines 185-211); outcome is
\* what bot.get_chat_member does if it is called: a status, or a raised class.
CheckResolved(u, ref, chat_id, resolve, outcome) ==
    LET now == clock
        key == <<u, chat_id>>
        cached == CacheGetValue(sub_cache, key, now)
        cache1 == CacheGetCache(sub_cache, key, now)
        before == Before(sub_cache, key, now)
        ok == outcome \in ALLOWED_STATUSES
    IN  IF CacheHit(cached)
        THEN /\ sub_cache' = cache1
             /\ ms_ret' = [user |-> u, ref |-> ref, result |-> cached = "True",
                           live |-> FALSE,
                           outcome |-> "not called", before |-> before,
                           resolve |-> resolve]
        ELSE IF outcome \in Statuses
        THEN /\ sub_cache' = CacheSet(cache1, key, ok, now)
             /\ ms_ret' = [user |-> u, ref |-> ref, result |-> ok, live |-> TRUE,
                           outcome |-> outcome, before |-> before,
                           resolve |-> resolve]
        ELSE /\ sub_cache' = Uncached(cache1, key, OnError(outcome), now)
             /\ ms_ret' = [user |-> u, ref |-> ref, result |-> OnError(outcome),
                           live |-> TRUE, outcome |-> outcome, before |-> before,
                           resolve |-> resolve]

\* chat_id is None: return True if FAIL_OPEN else False
CheckUnresolvedCaches(u, ref, resolve) ==
    /\ ms_ret' = [user |-> u, ref |-> ref, result |-> Fallback, live |-> FALSE,
                  outcome |-> "not called", before |-> "unresolved",
                  resolve |-> resolve]
    /\ sub_cache' = CacheGetCache(sub_cache, <<u, ChatOf(NumericRef)>>, clock)
CheckUnresolved(u, ref, resolve) ==
    /\ ms_ret' = [user |-> u, ref |-> ref, result |-> Fallback, live |-> FALSE,
                  outcome |-> "not called", before |-> "unresolved",
                  resolve |-> resolve]
    /\ UNCHANGED sub_cache

\* check_subscription(user_id, channel_id, bot)
Subscription(u, ref) ==
    /\ \/ /\ ref = NumericRef
          /\ \E outcome \in Statuses \cup Raised :
                 CheckResolved(u, ref, ChatOf(ref), "parsed", outcome)
          /\ UNCHANGED chat_resolve_cache
       \/ /\ ref = NameRef
          /\ Resolved(ref)
          /\ \E outcome \in Statuses \cup Raised :
                 CheckResolved(u, ref, chat_resolve_cache[ref], "cached", outcome)
          /\ UNCHANGED chat_resolve_cache
       \/ /\ ref = NameRef
          /\ ~Resolved(ref)
          /\ \E outcome \in Statuses \cup Raised :
                 CheckResolved(u, ref, ChatOf(ref), "get_chat", outcome)
          /\ chat_resolve_cache' = [chat_resolve_cache EXCEPT ![ref] = ChatOf(ref)]
       \/ /\ ref = NameRef
          /\ ~Resolved(ref)
          /\ CheckUnresolved(u, ref, "get_chat failed")
          /\ UNCHANGED chat_resolve_cache
       \/ /\ ref = BadRef
          /\ CheckUnresolved(u, ref, "int failed")
          /\ UNCHANGED chat_resolve_cache
    /\ UNCHANGED <<FAIL_OPEN, SUB_CACHE_TTL>>

\* A call of check_subscription on its own.
check_subscription(u, ref) ==
    /\ Subscription(u, ref)
    /\ UNCHANGED <<clock, bucketVars, clientVars, flowVars>>

\* ------------------------------------------------------- GigaChat client
MaxTokens == 4
MaxCalls == 3

\* for attempt in range(3)
TokenAttempts == 3
Attempts == 3

Callers == {"r1", "r2", "r3"}
WatchedCaller == "r1"
NoLease == [none |-> TRUE]

\* What the OAuth endpoint can answer to one request.
IssueOutcomes ==
    {"token", "no token", "network", "timeout", "http401", "http400", "http500", "other"}
\* What the completion endpoint can answer to one request: a body with status
\* 200, or a failure.
PostOutcomes ==
    {"http200", "network", "timeout", "http401", "http400", "http500", "other"}

\* len(content) < 5
MinContent == 5
MaxChoices == 2

\* message.content as <<blanks around, characters between>>; a missing message
\* or content reads as "" (lines 102-103).
Contents == (0..1) \X {0, MinContent - 1, MinContent}

\* content.strip(), len(content): the lengths after and before trimming
Stripped(content) == content[2]
Raw(content) == content[1] + content[2]

\* A body that is no JSON, JSON that is no dict, a dict with no 'choices', or a
\* dict with a list of choices.
NoBody == [kind |-> "none", choices |-> <<>>]
Bodies ==
    {[kind |-> k, choices |-> <<>>] : k \in {"not json", "not dict", "no choices", "choices"}}
    \cup {[kind |-> "choices", choices |-> cs] :
            cs \in UNION {[1..n -> Contents] : n \in 1..MaxChoices}}
BodiesOf(outcome) == IF outcome = "http200" THEN Bodies ELSE {NoBody}

\* if not content or len(content) < 5: raise ValueError
ContentOkUntrimmed(content) == Raw(content) >= MinContent
ContentOk(content) == Stripped(content) >= MinContent

\* Lines 95-105: the body passes the validation.
Valid(body) ==
    /\ body.kind = "choices"
    /\ body.choices # <<>>
    /\ ContentOk(body.choices[1])

\* The trimmed length of the shortest content among the choices of a body.
RECURSIVE Shortest(_)
Shortest(cs) ==
    IF Len(cs) = 1 THEN Stripped(cs[1])
    ELSE Min(Stripped(cs[1]), Shortest(Tail(cs)))

Idle == [pc |-> "idle", attempt |-> 0, tattempt |-> 0, sent |-> 0, result |-> "none"]
\* rejected: the token of the latest completion request answered 401 (0: none);
\* floor: how many tokens had been issued when that answer came.
\* config: the latest answer was status 400, or the authorization key is not
\* set; ok: the latest completion answer had status 200;
\* body: of the latest answer with status 200, how many choices it had, the
\* trimmed length of the first one and of the shortest one, and the untrimmed
\* length of the first one; got: get_gigachat_token has returned a token.
NoObsBody == [count |-> 0, first |-> 0, shortest |-> 0, raw |-> 0]
NoObs ==
    [posts |-> 0, issues |-> 0, waited |-> 0, token_waited |-> 0, all_timeout |-> TRUE,
     all_invalid |-> TRUE, rejected |-> 0, floor |-> 0, config |-> FALSE, ok |-> FALSE,
     body |-> NoObsBody, got |-> FALSE]
ObsBody(body) ==
    IF body.choices = <<>> THEN NoObsBody
    ELSE [count |-> Len(body.choices), first |-> Stripped(body.choices[1]),
          shortest |-> Shortest(body.choices), raw |-> Raw(body.choices[1])]

\* token_cache.get('access_token'): an entry past its ttl reads as missing
CachedTokenAnyAge == IF token_cache # NoLease THEN token_cache.token ELSE 0
CachedToken == IF token_cache # NoLease /\ token_cache.alive THEN token_cache.token ELSE 0

\* token_cache['access_token'] = access_token
LeaseNotStored(t) == token_cache
Lease(t) == [token |-> t, alive |-> TRUE]

\* token_cache.pop('access_token', None)
EvictedNever(outcome) == token_cache
Evicted(outcome) == IF outcome = "http401" THEN NoLease ELSE token_cache

\* if attempt == 2
LastAttemptLate(a) == a = Attempts
LastAttempt(a) == a = Attempts - 1
LastTokenAttemptLate(k) == k = TokenAttempts
LastTokenAttempt(k) == k = TokenAttempts - 1

\* asyncio.sleep(2 ** attempt)
BackoffDelayShifted(a) == 2 ^ (a + 1)
BackoffDelay(a) == 2 ^ a
\* asyncio.sleep(1 + attempt)
TokenDelay(k) == 1 + k

Observe(c, o) == obs' = IF c = WatchedCaller THEN o ELSE obs

\* One attempt of gigachat_request has raised: the three except clauses do the
\* same, raise after the last attempt and sleep otherwise.
AttemptRetried(c) == [call[c] EXCEPT !.pc = "backoff", !.sent = 0]
AttemptFailed(c) ==
    IF LastAttempt(call[c].attempt)
    THEN [call[c] EXCEPT !.pc = "done", !.result = "error", !.sent = 0]
    ELSE [call[c] EXCEPT !.pc = "backoff", !.sent = 0]

\* gigachat_request is called.
StartRequest(c) ==
    /\ call[c].pc \in {"idle", "done"}
    /\ started < MaxCalls
    /\ started' = started + 1
    /\ call' = [call EXCEPT ![c] = [Idle EXCEPT !.pc = "acquire"]]
    /\ Observe(c, NoObs)
    /\ UNCHANGED <<auth_key, token_cache, issued, redundant>>
    /\ UNCHANGED <<clock, bucketVars, memberVars, flowVars>>

\* get_gigachat_token up to its first request (lines 15-24).
GetToken(c) ==
    /\ call[c].pc = "acquire"
    /\ IF CachedToken # 0
       THEN /\ call' = [call EXCEPT ![c].pc = "posting", ![c].sent = CachedToken]
            /\ Observe(c, [obs EXCEPT !.got = TRUE])
       ELSE IF ~auth_key
       THEN /\ call' = [call EXCEPT ![c] = AttemptFailed(c)]
            /\ Observe(c, [obs EXCEPT !.all_timeout = FALSE, !.all_invalid = FALSE,
                                      !.config = TRUE])
       ELSE /\ call' = [call EXCEPT ![c].pc = "issuing", ![c].tattempt = 0]
            /\ UNCHANGED obs
    /\ UNCHANGED <<auth_key, token_cache, issued, started, redundant>>
    /\ UNCHANGED <<clock, bucketVars, memberVars, flowVars>>

\* The OAuth request of get_gigachat_token returns or raises (lines 36-65).
IssueResponse(c, outcome) ==
    /\ call[c].pc = "issuing"
    /\ IF outcome = "token"
       THEN /\ issued < MaxTokens
            /\ issued' = issued + 1
            /\ token_cache' = Lease(issued + 1)
            /\ redundant' = IF CachedToken # 0 THEN redundant + 1 ELSE redundant
            /\ call' = [call EXCEPT ![c].pc = "posting", ![c].sent = issued + 1]
            /\ Observe(c, [obs EXCEPT !.issues = @ + 1, !.config = FALSE, !.got = TRUE])
       ELSE /\ token_cache' = Evicted(outcome)
            /\ call' = [call EXCEPT ![c] =
                           IF LastTokenAttempt(call[c].tattempt)
                           THEN AttemptFailed(c)
                           ELSE [call[c] EXCEPT !.pc = "token sleep"]]
            /\ Observe(c, [obs EXCEPT !.issues = @ + 1, !.all_timeout = FALSE,
                                      !.all_invalid = FALSE,
                                      !.config = outcome = "http400"])
            /\ UNCHANGED <<issued, redundant>>
    /\ UNCHANGED <<auth_key, started>>
    /\ UNCHANGED <<clock, bucketVars, memberVars, flowVars>>

\* asyncio.sleep(1 + attempt) in get_gigachat_token is over.
TokenSleep(c) ==
    /\ call[c].pc = "token sleep"
    /\ call' = [call EXCEPT ![c].pc = "issuing", ![c].tattempt = @ + 1]
    /\ Observe(c, [obs EXCEPT !.token_waited = @ + TokenDelay(call[c].tattempt)])
    /\ UNCHANGED <<auth_key, token_cache, issued, started, redundant>>
    /\ UNCHANGED <<clock, bucketVars, memberVars, flowVars>>

\* The completion request returns or raises (lines 92-126).
PostResponse(c, outcome, body) ==
    /\ call[c].pc = "posting"
    /\ IF outcome = "http200" /\ Valid(body)
       THEN /\ call' = [call EXCEPT ![c].pc = "done", ![c].result = "text"]
            /\ UNCHANGED token_cache
       ELSE /\ call' = [call EXCEPT ![c] = AttemptFailed(c)]
            /\ token_cache' = Evicted(outcome)
    /\ Observe(c, [obs EXCEPT !.posts = @ + 1,
                              !.all_timeout = @ /\ outcome = "timeout",
                              !.all_invalid = @ /\ outcome = "http200",
                              !.config = outcome = "http400",
                              !.ok = outcome = "http200",
                              !.body = ObsBody(body),
                              !.rejected = IF outcome = "http401" THEN call[c].sent ELSE @,
                              !.floor = IF outcome = "http401" THEN issued ELSE @])
    /\ UNCHANGED <<auth_key, issued, started, redundant>>
    /\ UNCHANGED <<clock, bucketVars, memberVars, flowVars>>

\* asyncio.sleep(2 ** attempt) in gigachat_request is over.
Backoff(c) ==
    /\ call[c].pc = "backoff"
    /\ call' = [call EXCEPT ![c].pc = "acquire", ![c].attempt = @ + 1]
    /\ Observe(c, [obs EXCEPT !.waited = @ + BackoffDelay(call[c].attempt)])
    /\ UNCHANGED <<auth_key, token_cache, issued, started, redundant>>
    /\ UNCHANGED <<clock, bucketVars, memberVars, flowVars>>

\* TTLCache(maxsize=1, ttl=1740): the lifetime of the cached token runs out.
TokenExpires ==
    /\ token_cache # NoLease
    /\ token_cache.alive
    /\ token_cache' = [token_cache EXCEPT !.alive = FALSE]
    /\ UNCHANGED <<auth_key, issued, started, call, redundant, obs>>
    /\ UNCHANGED <<clock, bucketVars, memberVars, flowVars>>

\* ------------------------------------------------------------ ban list
MaxBans == 3

\* f.write(f"{user_id}\n") on a file opened with 'a'
Overwritten(lines, u) == <<u>>
Appended(lines, u) == Append(lines, u)

\* str(user_id) in [line.strip() for line in f if line.strip()]
is_user_banned(u) == \E i \in 1..Len(banned_file) : banned_file[i] = u

add_banned_user(u) ==
    /\ Len(banned_file) < MaxBans
    /\ banned_file' = Appended(banned_file, u)
    /\ ban_done' = ban_done \cup {u}
    /\ UNCHANGED <<user_last_request, req>>
    /\ UNCHANGED <<clock, bucketVars, memberVars, clientVars>>

\* -------------------------------------------------------- orchestrator
\* The handlers of main.py for one update of Watched at a time: a text
\* message (handle_user_input), a direct launch of book or bot and the choice
\* of a category (handle_category_selection).
Kinds == {"text", "launch", "category"}
\* The text of a message after strip(): empty, longer than 500, holding a word
\* of the blacklist, or none of these.
Inputs == {"empty", "long", "blacklisted", "plain"}

NoTime == 0 - 1
NoReq ==
    [pc |-> "idle", kind |-> "none", input |-> "none", stages |-> <<>>,
     member |-> FALSE, admitted |-> FALSE, denied |-> "none"]

\* self.channel_id = int(os.getenv('CHANNEL_ID'))
channel_id == NumericRef

\* now - user_last_request[user_id] < timedelta(seconds=1)
TooFast(now) == user_last_request # NoTime /\ now - user_last_request < 1

EndedAfterLimiter(r, stage) ==
    [r EXCEPT !.denied = stage,
              !.pc = IF stage \in {"repeat", "input", "access"} THEN "rate" ELSE "end"]
Ended(r, stage) == [r EXCEPT !.pc = "end", !.denied = stage]

\* An update arrives.  For a text message: the repeat check and the checks
\* of the text (lines 469-481); the other handlers go straight to the access
\* check.
Receive(kind, input) ==
    LET r == [NoReq EXCEPT !.kind = kind, !.input = input]
    IN  /\ req.pc \in {"idle", "end"}
        /\ (kind = "text") = (input # "none")
        /\ IF kind = "text" /\ TooFast(clock)
           THEN /\ req' = Ended(r, "repeat")
                /\ UNCHANGED user_last_request
           ELSE /\ user_last_request' = IF kind = "text" THEN clock ELSE user_last_request
                /\ req' = IF input \in {"empty", "long"} THEN Ended(r, "input")
                          ELSE [r EXCEPT !.pc = "access"]
        /\ UNCHANGED <<banned_file, ban_done>>
        /\ UNCHANGED <<clock, bucketVars, memberVars, clientVars>>

\* check_user_access: is_user_banned, then check_subscription.
CheckUserAccess ==
    LET r == [req EXCEPT !.stages = Append(@, "access")]
    IN  /\ req.pc = "access"
        /\ IF is_user_banned(Watched)
           THEN /\ req' = Ended(r, "access")
                /\ UNCHANGED memberVars
           ELSE /\ Subscription(Watched, channel_id)
                /\ req' = IF ms_ret'.result
                          THEN [r EXCEPT !.pc = "rate", !.member = TRUE]
                          ELSE Ended(r, "access")
        /\ UNCHANGED <<banned_file, ban_done, user_last_request>>
        /\ UNCHANGED <<clock, bucketVars, clientVars>>

\* What follows an admission: the moderation of a text, the generation for a
\* direct launch, the prompt for a category.
AfterRateUnchecked(r, allowed) ==
    [r EXCEPT !.admitted = allowed,
              !.pc = IF r.kind = "text" THEN "moderate"
                     ELSE IF r.kind = "launch" THEN "generate" ELSE "end"]
AfterRate(r, allowed) ==
    IF allowed THEN AfterRateUnchecked(r, allowed) ELSE Ended(r, "rate")

\* check_rate_limit: allow_request_token_bucket with TB_CAPACITY,
\* TB_REFILL_PER_SEC and cost 1.0.
CheckRateLimit ==
    LET r == [req EXCEPT !.stages = Append(@, "rate")]
    IN  /\ req.pc = "rate"
        /\ AllowRequest(Watched)
        /\ req' = AfterRate(r, tb_ret'.allowed)
        /\ UNCHANGED <<banned_file, ban_done, user_last_request>>
        /\ UNCHANGED <<clock, memberVars, clientVars>>

\* moderate_text: False for a text holding a word of the blacklist.
Moderate ==
    LET r == [req EXCEPT !.stages = Append(@, "moderate")]
    IN  /\ req.pc = "moderate"
        /\ req' = IF req.input = "blacklisted" THEN Ended(r, "moderate")
                  ELSE [r EXCEPT !.pc = "generate"]
        /\ UNCHANGED <<banned_file, ban_done, user_last_request>>
        /\ UNCHANGED <<clock, bucketVars, memberVars, clientVars>>

\* generate_enhanced_prompt is called and its result, or the error message,
\* is sent.
Generate ==
    /\ req.pc = "generate"
    /\ req' = [req EXCEPT !.stages = Append(@, "generate"), !.pc = "end"]
    /\ UNCHANGED <<banned_file, ban_done, user_last_request>>
    /\ UNCHANGED <<clock, bucketVars, memberVars, clientVars>>

\* Time passes between two updates.
FlowTime == 1

Later ==
    /\ req.pc \in {"idle", "end"}
    /\ clock < FlowTime
    /\ Tick

\* ------------------------------------------------------ specifications
\* The state of each component when the process starts.
BucketStart ==
    /\ cost = DefaultCost
    /\ rate_state = EmptyDoc
    /\ rate_file = "document"
    /\ running = "none"
    /\ loaded = [u \in Users |-> NoLoad]
    /\ written = NoDoc
    /\ js_ret = NoLoad
    /\ tb_ret = NoCall
    /\ burst = 0
    /\ promise = NoPromise
    /\ watch = NoWatch

MemberStart ==
    /\ sub_cache = [k \in MemberUsers \X Chats |-> NoItem]
    /\ chat_resolve_cache = [r \in {NameRef} |-> NoChat]
    /\ ms_ret = NoCall

FlowStart ==
    /\ banned_file = <<>>
    /\ ban_done = {}
    /\ user_last_request = NoTime
    /\ req = NoReq

ClientStart ==
    /\ token_cache = NoLease
    /\ issued = 0
    /\ started = 0
    /\ call = [c \in Callers |-> Idle]
    /\ redundant = 0
    /\ obs = NoObs

\* The token bucket, for every configuration within the bounds.
BucketInit ==
    /\ clock = 0
    /\ capacity \in Capacities
    /\ refill_per_sec \in RefillRates
    /\ BucketStart
    /\ FAIL_OPEN = FALSE
    /\ SUB_CACHE_TTL = MaxTtl
    /\ MemberStart
    /\ auth_key = TRUE
    /\ ClientStart
    /\ FlowStart

BucketNext ==
    \/ Tick
    \/ ClockSetBack
    \/ \E u \in Users : allow_request_token_bucket(u)

SpecBucket == BucketInit /\ [][BucketNext]_vars

\* The deployment defaults (capacity 30, 0.5 tokens/s, cost 1) with one user.
DefaultInit ==
    /\ clock = 0
    /\ capacity = DefaultCapacity * TokenUnit
    /\ refill_per_sec = DefaultRefill
    /\ BucketStart
    /\ FAIL_OPEN = FALSE
    /\ SUB_CACHE_TTL = MaxTtl
    /\ MemberStart
    /\ auth_key = TRUE
    /\ ClientStart
    /\ FlowStart

DefaultNext ==
    \/ Tick
    \/ ClockSetBack
    \/ allow_request_token_bucket(Watched)

SpecDefault == DefaultInit /\ [][DefaultNext]_vars

\* Admission checks of two users as coroutines of one event loop: each is a
\* load step and a save step.
LoopInit ==
    /\ clock = 0
    /\ capacity \in Capacities
    /\ refill_per_sec = DefaultRefill
    /\ BucketStart
    /\ FAIL_OPEN = FALSE
    /\ SUB_CACHE_TTL = MaxTtl
    /\ MemberStart
    /\ auth_key = TRUE
    /\ ClientStart
    /\ FlowStart

LoopNext ==
    \/ Tick
    \/ ClockSetBack
    \/ \E u \in Users : BeginAdmission(u)
    \/ \E u \in Users : EndAdmission(u)

SpecLoop == LoopInit /\ [][LoopNext]_vars

\* The rate-limit file under storage faults: admission checks, the two
\* general store functions applied to the same file, and saves cut short.
\* The process may start with no file.
StoreInit ==
    /\ clock = 0
    /\ capacity = MaxCapacity
    /\ refill_per_sec = DefaultRefill
    /\ cost = DefaultCost
    /\ rate_state = EmptyDoc
    /\ rate_file \in {"document", "missing"}
    /\ running = "none"
    /\ loaded = [u \in Users |-> NoLoad]
    /\ written = NoDoc
    /\ js_ret = NoLoad
    /\ tb_ret = NoCall
    /\ burst = 0
    /\ promise = NoPromise
    /\ watch = NoWatch
    /\ FAIL_OPEN = FALSE
    /\ SUB_CACHE_TTL = MaxTtl
    /\ MemberStart
    /\ auth_key = TRUE
    /\ ClientStart
    /\ FlowStart

StoreNext ==
    \/ Tick
    \/ \E u \in Users : BeginAdmission(u)
    \/ \E u \in Users : EndAdmission(u)
    \/ \E u \in Users, left \in Torn, crash \in BOOLEAN : SaveInterrupted(u, left, crash)
    \/ load_json_data
    \/ \E data \in OtherDocs : save_json_data(data)
    \/ \E left \in Torn : SaveJsonInterrupted(left)

SpecStore == StoreInit /\ [][StoreNext]_vars

\* The updates of one user handled one after the other, under both policies,
\* while users are banned.
FlowInit ==
    /\ clock = 0
    /\ capacity = MaxCapacity
    /\ refill_per_sec = DefaultRefill
    /\ BucketStart
    /\ FAIL_OPEN \in BOOLEAN
    /\ SUB_CACHE_TTL = MaxTtl
    /\ MemberStart
    /\ auth_key = TRUE
    /\ ClientStart
    /\ FlowStart

FlowNext ==
    \/ Later
    \/ \E kind \in Kinds, input \in Inputs \cup {"none"} : Receive(kind, input)
    \/ CheckUserAccess
    \/ CheckRateLimit
    \/ Moderate
    \/ Generate
    \/ \E u \in Users : add_banned_user(u)

SpecFlow == FlowInit /\ [][FlowNext]_vars

\* The membership check, under both policies and every TTL within the bound.
MemberInit ==
    /\ clock = 0
    /\ capacity = DefaultCapacity * TokenUnit
    /\ refill_per_sec = DefaultRefill
    /\ BucketStart
    /\ FAIL_OPEN \in BOOLEAN
    /\ SUB_CACHE_TTL \in 0..MaxTtl
    /\ MemberStart
    /\ auth_key = TRUE
    /\ ClientStart
    /\ FlowStart

MemberNext ==
    \/ Tick
    \/ ClockSetBack
    \/ \E u \in MemberUsers, ref \in Refs : check_subscription(u, ref)

SpecMember == MemberInit /\ [][MemberNext]_vars

\* One caller of the GigaChat client at a time, with or without an
\* authorization key.
ClientInit ==
    /\ clock = 0
    /\ capacity = DefaultCapacity * TokenUnit
    /\ refill_per_sec = DefaultRefill
    /\ BucketStart
    /\ FAIL_OPEN = FALSE
    /\ SUB_CACHE_TTL = MaxTtl
    /\ MemberStart
    /\ auth_key \in BOOLEAN
    /\ ClientStart
    /\ FlowStart

ClientNext ==
    \/ StartRequest(WatchedCaller)
    \/ GetToken(WatchedCaller)
    \/ \E outcome \in IssueOutcomes : IssueResponse(WatchedCaller, outcome)
    \/ TokenSleep(WatchedCaller)
    \/ \E outcome \in PostOutcomes : \E body \in BodiesOf(outcome) :
           PostResponse(WatchedCaller, outcome, body)
    \/ Backoff(WatchedCaller)
    \/ TokenExpires

SpecClient == ClientInit /\ [][ClientNext]_vars

\* Several callers at once, starting with the cache empty (after an eviction)
\* or holding an expired token: every OAuth request yields a token, no
\* completion request is answered 401 and no token expires afterwards.  The
\* event loop runs every coroutine that can run, and every request is
\* answered or times out.
ExpiredLease == [token |-> 1, alive |-> FALSE]
RacePostOutcomes == PostOutcomes \ {"http401"}
\* One body that passes the validation and one that does not.
RaceBodies ==
    {[kind |-> "choices", choices |-> <<(<<0, MinContent>>)>>],
     [kind |-> "not json", choices |-> <<>>]}

RaceInit ==
    /\ clock = 0
    /\ capacity = DefaultCapacity * TokenUnit
    /\ refill_per_sec = DefaultRefill
    /\ BucketStart
    /\ FAIL_OPEN = FALSE
    /\ SUB_CACHE_TTL = MaxTtl
    /\ MemberStart
    /\ auth_key = TRUE
    /\ token_cache \in {NoLease, ExpiredLease}
    /\ issued = IF token_cache = NoLease THEN 0 ELSE ExpiredLease.token
    /\ started = 0
    /\ call = [c \in Callers |-> Idle]
    /\ redundant = 0
    /\ obs = NoObs
    /\ FlowStart

RaceNext ==
    \/ \E c \in Callers : StartRequest(c)
    \/ \E c \in Callers : GetToken(c)
    \/ \E c \in Callers : IssueResponse(c, "token")
    \/ \E c \in Callers, outcome \in RacePostOutcomes :
         \E body \in BodiesOf(outcome) \cap (RaceBodies \cup {NoBody}) :
           PostResponse(c, outcome, body)
    \/ \E c \in Callers : Backoff(c)

SpecRace == RaceInit /\ [][RaceNext]_vars /\ WF_vars(RaceNext)

\* ------------------------------------------------- token bucket: claims

\* C1: after every call the persisted token count of a user satisfies
\* 0 <= tokens <= capacity.
C1_TokensWithinCapacity ==
    \A u \in Users :
        rate_state[u] # Absent =>
            /\ 0 <= rate_state[u].tokens
            /\ rate_state[u].tokens <= capacity

\* C2: from a full bucket (capacity 30, 0.5 tokens/s, cost 1) the calls 1..30
\* made with no time elapsing are admitted, the 31st is denied with a wait of
\* exactly 2 seconds, and the call repeated 2 seconds later is admitted.
C2_BurstOfThirty ==
    /\ burst \in 1..DefaultCapacity => watch.allowed
    /\ burst = DefaultCapacity + 1 =>
            /\ ~watch.allowed
            /\ watch.wait[1] = 2 * watch.wait[2]
    /\ watch.retry => watch.allowed

C2_Witness ==
    /\ capacity = DefaultCapacity * TokenUnit
    /\ watch.retry
    /\ watch.allowed
    /\ rate_state[Watched].updated >= 2

\* C3 as stated: a call made at least w seconds after a denial that returned
\* w is admitted, whatever number of denied calls happened in between.
C3_AdmittedAfterWait == watch.due => watch.allowed

\* C3 as amended: the same, for a bucket that refills (refill_per_sec > 0)
\* and can hold the cost of one request (cost <= capacity).
C3_AdmittedAfterWaitWhenRefilling ==
    (refill_per_sec > 0 /\ cost <= capacity /\ watch.due) => watch.allowed

C3_Witness ==
    /\ refill_per_sec > 0
    /\ cost <= capacity
    /\ watch.due
    /\ watch.allowed
    /\ watch.between = 2

\* C12: whatever the interleaving of the admission checks of the users, no
\* update of the rate-limit file is lost: every change of the file is the
\* effect, on the file as it stands, of one whole admission check of one user,
\* so the file always is what the checks made one after the other produce.
C12_NoLostUpdate ==
    [][rate_state' # rate_state =>
          \E u \in Users, now \in 0..MaxTime :
              rate_state' = [rate_state EXCEPT ![u] = TryAdmit(rate_state, u, now).entry]]_vars

C12_Witness ==
    /\ running = "u2"
    /\ loaded["u2"].state["u1"] # Absent
    /\ loaded["u2"].state["u2"] # Absent
    /\ rate_state["u1"].tokens < capacity
    /\ tb_ret.user = "u1"

\* C17 as stated: the stored updated of a user never decreases from one call to
\* the next, also when the later call reads a clock below the stored value.
C17_UpdatedNeverDecreases ==
    [][\A u \in Users :
          (rate_state[u] # Absent /\ rate_state'[u] # Absent) =>
              rate_state'[u].updated >= rate_state[u].updated]_vars

\* C17 as amended: a call stores its own clock reading as updated; so the
\* stored value does not decrease over calls whose readings do not go below it,
\* and a call that reads a clock below the stored value sets it back to that
\* reading.
C17_UpdatedIsLastReading ==
    /\ [][\A u \in Users :
              rate_state'[u] # rate_state[u] => rate_state'[u].updated = clock]_vars
    /\ [][\A u \in Users :
              (rate_state[u] # Absent /\ clock' >= rate_state[u].updated) =>
                  rate_state'[u].updated >= rate_state[u].updated]_vars

C17_Witness ==
    /\ watch.back
    /\ rate_state[Watched].updated = clock
    /\ rate_state["u2"] # Absent
    /\ rate_state["u2"].updated > clock

\* ------------------------------------------------ rate-limit file: claims

\* C14: a save is all-or-nothing: also after a save that was cut short, a load
\* finds a whole document in the file, never an empty or a partial one.
C14_LoadSeesWholeDocument ==
    /\ \A u \in Users : loaded[u] # NoLoad => loaded[u].seen \notin Torn
    /\ js_ret # NoLoad => js_ret.seen \notin Torn

\* C15 as stated: a load of a missing file returns the default, and a load of
\* corrupt or truncated content returns the default and leaves the file
\* holding that default.
C15_ResetPersisted ==
    /\ [](\A u \in Users :
            loaded[u] # NoLoad /\ loaded[u].seen # "document" =>
                /\ loaded[u].state = EmptyDoc
                /\ rate_file = "document")
    /\ [][(js_ret' # js_ret /\ js_ret'.seen # "document") =>
              /\ js_ret'.state = EmptyDoc
              /\ rate_file' = "document"]_vars

\* C15 as amended: every load of a missing, empty or unreadable file returns
\* the default; a missing file is created holding it; load_json_data writes
\* the default over a non-empty unreadable file and leaves an empty file
\* empty; _load_rate_state writes nothing, and the file is whole again when the
\* save that ends the same admission check completes.
C15_RecoveredLocally ==
    /\ [](\A u \in Users :
            loaded[u] # NoLoad /\ loaded[u].seen # "document" =>
                /\ loaded[u].state = EmptyDoc
                /\ loaded[u].seen = "missing" => rate_file = "document"
                /\ loaded[u].seen \in Torn => rate_file = loaded[u].seen)
    /\ [][\A u \in Users :
              (loaded[u] # NoLoad /\ loaded[u].seen \in Torn /\ written' # NoDoc) =>
                  /\ rate_file' = "document"
                  /\ rate_state'[u] # Absent]_vars
    /\ [][(js_ret' # js_ret /\ js_ret'.seen # "document") =>
              /\ js_ret'.state = EmptyDoc
              /\ rate_state' = EmptyDoc
              /\ rate_file' = IF js_ret'.seen = "empty" THEN "empty" ELSE "document"]_vars

C15_Witness ==
    /\ js_ret # NoLoad
    /\ js_ret.seen = "partial"
    /\ rate_file = "empty"
    /\ tb_ret # NoCall
    /\ \E u \in Users : loaded[u] # NoLoad /\ loaded[u].seen = "empty"

C4_NegativeNotServed ==
    (ms_ret # NoCall /\ ms_ret.before = "negative") =>
        /\ ms_ret.live
        /\ ms_ret.outcome \in ALLOWED_STATUSES => ms_ret.result

C4_Witness ==
    /\ ms_ret # NoCall
    /\ ms_ret.before = "negative"
    /\ ms_ret.outcome = "member"
    /\ ms_ret.live
    /\ ms_ret.result

\* C5: a call for a pair whose cached entry is positive and not older than the
\* TTL returns true without a live status check.
C5_PositiveServed ==
    (ms_ret # NoCall /\ ms_ret.before = "positive") =>
        /\ ms_ret.result
        /\ ~ms_ret.live

C5_Witness ==
    /\ ms_ret # NoCall
    /\ ms_ret.before = "positive"
    /\ ms_ret.result
    /\ ~ms_ret.live
    /\ SUB_CACHE_TTL > 0
    /\ clock - sub_cache[<<ms_ret.user, ChatOf(ms_ret.ref)>>].ts = SUB_CACHE_TTL

\* C6: a call for a pair whose entry is older than the TTL makes a live status
\* check, whether the entry was positive or negative; and nothing but a call
\* changes the cache: the passing of time alone removes no entry.
C6_ExpiredRechecked ==
    /\ [](ms_ret # NoCall /\ ms_ret.before \in {"expired positive", "expired negative"}
            => ms_ret.live)
    /\ [][clock' # clock => sub_cache' = sub_cache]_vars

C6_Witness ==
    /\ ms_ret # NoCall
    /\ ms_ret.before = "expired positive"
    /\ ms_ret.live
    /\ ms_ret.outcome = "left"
    /\ ~ms_ret.result

\* C7: when the live lookup fails with a permission error or a network/timeout
\* error, the call returns the configured fallback: FAIL_OPEN.
C7_FallbackOnFailure ==
    (ms_ret # NoCall /\ ms_ret.outcome \in {"Forbidden", "TimedOut", "NetworkError"}) =>
        /\ ms_ret.live
        /\ ms_ret.result = FAIL_OPEN

C7_Witness ==
    /\ ms_ret # NoCall
    /\ ms_ret.outcome = "TimedOut"
    /\ FAIL_OPEN
    /\ ms_ret.result
    /\ ms_ret.before = "negative"

\* C20: a call whose channel reference cannot be resolved returns the
\* configured fallback, FAIL_OPEN, makes no live status check, and leaves the
\* membership cache as it was: no entry is added, and no expired entry is
\* dropped as a read of the cache would do.
C20_UnresolvedFallback ==
    /\ []((ms_ret # NoCall /\ ms_ret.before = "unresolved") =>
            /\ ms_ret.result = FAIL_OPEN
            /\ ~ms_ret.live
            /\ ms_ret.outcome = "not called")
    /\ [][(ms_ret' # ms_ret /\ ms_ret'.before = "unresolved") =>
              sub_cache' = sub_cache]_vars

C20_Witness ==
    /\ ms_ret # NoCall
    /\ ms_ret.before = "unresolved"
    /\ ms_ret.resolve = "get_chat failed"
    /\ FAIL_OPEN
    /\ ms_ret.result
    /\ sub_cache[<<ms_ret.user, ChatOf(NumericRef)>>] # NoItem
    /\ clock - sub_cache[<<ms_ret.user, ChatOf(NumericRef)>>].ts > SUB_CACHE_TTL

\* C8: when the live lookup fails with BadRequest, the call returns false under
\* both policies.
C8_BadRequestIsFalse ==
    (ms_ret # NoCall /\ ms_ret.outcome = "BadRequest") => ~ms_ret.result

\* ----------------------------------------------------- GigaChat client: claims

\* C9: a call whose completion requests all time out (its credential being
\* obtained each time) makes exactly 3 completion requests and ends with an
\* error; no call makes a 4th completion request, and such a call returns no
\* text.
C9_ThreeAttempts ==
    /\ obs.posts <= 3
    /\ obs.all_timeout => call[WatchedCaller].result # "text"
    /\ (call[WatchedCaller].pc = "done" /\ obs.all_timeout) =>
           /\ obs.posts = 3
           /\ call[WatchedCaller].result = "error"

C9_Witness ==
    /\ call[WatchedCaller].pc = "done"
    /\ obs.all_timeout
    /\ obs.posts = 3
    /\ call[WatchedCaller].result = "error"

C11_EvictedAndReissued ==
    obs.rejected # 0 =>
        /\ CachedToken # obs.rejected
        /\ call[WatchedCaller].pc = "posting" =>
               /\ call[WatchedCaller].sent # obs.rejected
               /\ call[WatchedCaller].sent > obs.floor

C11_Witness ==
    /\ obs.rejected = 1
    /\ obs.posts = 1
    /\ call[WatchedCaller].pc = "posting"
    /\ call[WatchedCaller].attempt = 1
    /\ call[WatchedCaller].sent = 2
    /\ CachedToken = 2

\* C18 as stated: a call returns text only for an answer that is a document
\* with a non-empty list of choices each of which holds a content of at least 5
\* characters after trimming.
C18_EveryChoiceChecked ==
    call[WatchedCaller].result = "text" =>
        /\ obs.ok
        /\ obs.body.count > 0
        /\ obs.body.shortest >= MinContent

\* C18 as amended: a call returns text only for an answer that is a document
\* with a non-empty list of choices the first of which holds a content of at
\* least 5 characters after trimming; and a call all of whose answers fail that
\* check makes 3 completion requests and ends with an error.
C18_FirstChoiceChecked ==
    /\ call[WatchedCaller].result = "text" =>
           /\ obs.ok
           /\ obs.body.count > 0
           /\ obs.body.first >= MinContent
    /\ (call[WatchedCaller].pc = "done" /\ call[WatchedCaller].result = "error"
            /\ obs.all_invalid) => obs.posts = Attempts

C18_Witness ==
    /\ call[WatchedCaller].result = "text"
    /\ obs.posts = 2
    /\ obs.all_invalid
    /\ obs.body.count = 2
    /\ obs.body.first = MinContent
    /\ obs.body.raw = MinContent + 1
    /\ obs.body.shortest = 0

\* C19: once an endpoint has answered 400, or the authorization key is found
\* missing, the call has ended with an error: it is in no backoff or sleep and
\* makes no further request.
C19_ConfigNotRetried ==
    obs.config =>
        /\ call[WatchedCaller].pc = "done"
        /\ call[WatchedCaller].result = "error"

\* C13 as stated: with issuance succeeding, at most one issued token is
\* redundant (replaces a cached token that is still valid).
C13_OneRedundantIssuance == redundant <= 1

\* C13 as amended: every caller that finds the cache empty issues a request of
\* its own and only one (the watched caller is any of them), so with N
\* concurrent callers at most N - 1 issued tokens are redundant; and the callers
\* reach, for good, a state where the cache holds the token issued last and no
\* caller is requesting a token.
C13_Converges ==
    /\ [](redundant <= Cardinality(Callers) - 1)
    /\ [](obs.issues <= 1)
    /\ <>[](/\ CachedToken # 0
            /\ CachedToken = issued
            /\ \A c \in Callers : call[c].pc \notin {"issuing", "token sleep"})

C13_Witness ==
    /\ redundant = Cardinality(Callers) - 1
    /\ CachedToken = issued
    /\ \A c \in Callers : call[c].pc = "done" /\ call[c].result = "text"

\* ------------------------------------------------------ orchestrator: claims

StageRank(stage) ==
    CASE stage = "access" -> 1
      [] stage = "rate" -> 2
      [] stage = "moderate" -> 3
      [] stage = "generate" -> 4

\* C21: the stages of a request run in the order access check, token-bucket
\* admission, generation: the generation is called only after the membership
\* check returned true and the limiter admitted the request, and a request
\* denied at a stage has ended with that stage as its last one.
C21_StagesInOrder ==
    /\ \A i, j \in 1..Len(req.stages) :
         i < j => StageRank(req.stages[i]) < StageRank(req.stages[j])
    /\ (\E i \in 1..Len(req.stages) : req.stages[i] = "rate") =>
         /\ req.stages[1] = "access"
         /\ req.member
         /\ ms_ret # NoCall /\ ms_ret.user = Watched /\ ms_ret.result
    /\ (\E i \in 1..Len(req.stages) : req.stages[i] = "generate") =>
         /\ req.stages[1] = "access"
         /\ req.stages[2] = "rate"
         /\ req.member /\ req.admitted
         /\ ms_ret # NoCall /\ ms_ret.user = Watched /\ ms_ret.result
         /\ tb_ret # NoCall /\ tb_ret.user = Watched /\ tb_ret.allowed
    /\ req.denied \in {"access", "rate", "moderate"} =>
         /\ req.pc = "end"
         /\ req.stages[Len(req.stages)] = req.denied
    /\ req.denied \in {"repeat", "input"} =>
         /\ req.pc = "end"
         /\ req.stages = <<>>

C21_Witness ==
    /\ req.pc = "end"
    /\ req.kind = "text"
    /\ req.stages = <<"access", "rate", "moderate", "generate">>
    /\ tb_ret.allowed
    /\ rate_state[Watched] # Absent
    /\ rate_state[Watched].tokens < capacity
    /\ ms_ret.live

\* ---------------------------------------------------------- ban list: claims

RefTokens(u, now) ==
    IF rate_state[u] = Absent THEN Min(capacity, capacity + 0 * refill_per_sec)
    ELSE Min(capacity, rate_state[u].tokens
                        + Max(0, now - rate_state[u].updated) * refill_per_sec)

\* A step that is a call of allow_request_token_bucket.
IsAdmissionCall == tb_ret' # tb_ret \/ rate_state' # rate_state

\* C23 as stated: the call returns (true, 0) and stores r - cost exactly when
\* r >= cost, and otherwise returns (false, (cost - r) / refill_per_sec) and
\* stores r, r being the refilled amount of the reference operator.
C23_MatchesReference ==
    [][IsAdmissionCall =>
        LET u == tb_ret'.user
            r == RefTokens(u, clock)
        IN  /\ tb_ret'.allowed = (r >= cost)
            /\ r >= cost =>
                 /\ tb_ret'.wait[1] = 0
                 /\ rate_state'[u].tokens = r - cost
            /\ r < cost =>
                 /\ refill_per_sec # 0
                 /\ tb_ret'.wait[1] * refill_per_sec = (cost - r) * tb_ret'.wait[2]
                 /\ rate_state'[u].tokens = r]_vars

\* C23 as amended: the same, the wait of a denial being (cost - r) /
\* refill_per_sec when refill_per_sec > 0 and the fixed 5 seconds otherwise.
C23_MatchesReferenceOrFallback ==
    [][IsAdmissionCall =>
        LET u == tb_ret'.user
            r == RefTokens(u, clock)
        IN  /\ tb_ret'.allowed = (r >= cost)
            /\ r >= cost =>
                 /\ tb_ret'.wait[1] = 0
                 /\ rate_state'[u].tokens = r - cost
            /\ r < cost =>
                 /\ refill_per_sec > 0 =>
                      tb_ret'.wait[1] * refill_per_sec = (cost - r) * tb_ret'.wait[2]
                 /\ refill_per_sec <= 0 =>
                      tb_ret'.wait[1] = FallbackWait * tb_ret'.wait[2]
                 /\ rate_state'[u].tokens = r]_vars

C23_Witness ==
    /\ tb_ret # NoCall
    /\ ~tb_ret.allowed
    /\ refill_per_sec = 0
    /\ tb_ret.wait = <<FallbackWait, 1>>
    /\ rate_state[tb_ret.user] # Absent
    /\ rate_state[tb_ret.user].tokens < cost
    /\ rate_state[tb_ret.user].tokens > 0
    /\ clock >= 2

\* C24: with refill_per_sec <= 0 the bucket is a fixed allowance: a denial
\* returns the fixed wait of 5 seconds, the stored token count of a user never
\* increases from one state to the next, a call made once the stored count is
\* below the cost is denied, and the stored count stays within 0..capacity.
C24_FixedAllowance ==
    /\ [](refill_per_sec <= 0 =>
            /\ (tb_ret # NoCall /\ ~tb_ret.allowed) =>
                 tb_ret.wait = <<FallbackWait, 1>>
            /\ \A u \in Users :
                 rate_state[u] # Absent =>
                    /\ 0 <= rate_state[u].tokens
                    /\ rate_state[u].tokens <= capacity)
    /\ [][refill_per_sec <= 0 =>
            \A u \in Users :
               rate_state[u] # Absent =>
                  /\ rate_state'[u] # Absent
                  /\ rate_state'[u].tokens <= rate_state[u].tokens
                  /\ (rate_state[u].tokens < cost /\ IsAdmissionCall
                        /\ tb_ret'.user = u) => ~tb_ret'.allowed]_vars

\* ------------------------------------------- GigaChat client: the credential

\* C25: get_gigachat_token returns the cached token, sending no request to the
\* OAuth endpoint, whenever a token that has not expired is cached; it never
\* returns a cached token that has expired: finding one, it sends a request to
\* the OAuth endpoint.
C25_CachedWhileAlive ==
    [][(call[WatchedCaller].pc = "acquire" /\ call'[WatchedCaller].pc # "acquire") =>
        /\ (token_cache # NoLease /\ token_cache.alive) =>
              /\ call'[WatchedCaller].pc = "posting"
              /\ call'[WatchedCaller].sent = token_cache.token
              /\ obs'.issues = obs.issues
              /\ issued' = issued
              /\ token_cache' = token_cache
        /\ (token_cache # NoLease /\ ~token_cache.alive) =>
              /\ call'[WatchedCaller].pc = "issuing"
              /\ call'[WatchedCaller].sent # token_cache.token]_vars

C25_Witness ==
    /\ call[WatchedCaller].pc = "issuing"
    /\ token_cache # NoLease
    /\ ~token_cache.alive
    /\ obs.posts = 0
    /\ obs.issues = 0
    /\ started >= 2

\* C26: on a cache miss get_gigachat_token sends at most 3 requests to the
\* OAuth endpoint: after the failed request number i (0-based, not the last)
\* it sleeps 1 + i seconds and sends the next one, an answer 401 leaves no
\* token in the cache, a success caches the token and ends the attempts, and
\* the third failure raises.
C26_ThreeIssuingCalls ==
    /\ [](/\ call[WatchedCaller].tattempt <= TokenAttempts - 1
          /\ obs.issues <= TokenAttempts * (call[WatchedCaller].attempt + 1)
          /\ obs.token_waited <= (1 + 2) * (call[WatchedCaller].attempt + 1))
    /\ [][/\ (call[WatchedCaller].pc = "issuing" /\ call'[WatchedCaller].pc # "issuing") =>
               /\ obs'.issues = obs.issues + 1
               /\ call'[WatchedCaller].pc \in {"token sleep", "posting", "backoff", "done"}
               /\ call'[WatchedCaller].pc = "token sleep" =>
                     /\ call[WatchedCaller].tattempt < TokenAttempts - 1
                     /\ issued' = issued
               /\ call'[WatchedCaller].pc = "posting" =>
                     /\ issued' = issued + 1
                     /\ token_cache' = [token |-> issued', alive |-> TRUE]
                     /\ call'[WatchedCaller].sent = issued'
               /\ call'[WatchedCaller].pc \in {"backoff", "done"} =>
                     /\ call[WatchedCaller].tattempt = TokenAttempts - 1
                     /\ issued' = issued
                     /\ call'[WatchedCaller].result # "text"
          /\ (call[WatchedCaller].pc = "token sleep" /\ call'[WatchedCaller].pc # "token sleep") =>
               /\ call'[WatchedCaller].pc = "issuing"
               /\ call'[WatchedCaller].tattempt = call[WatchedCaller].tattempt + 1
               /\ obs'.token_waited = obs.token_waited + 1 + call[WatchedCaller].tattempt
          /\ IssueResponse(WatchedCaller, "http401") => token_cache' = NoLease]_vars

C26_Witness ==
    /\ call[WatchedCaller].pc = "backoff"
    /\ call[WatchedCaller].attempt = 0
    /\ call[WatchedCaller].tattempt = TokenAttempts - 1
    /\ obs.issues = TokenAttempts
    /\ obs.token_waited = 1 + 2
    /\ obs.posts = 0
    /\ token_cache = NoLease
    /\ started = 2

\* How far the call of WatchedCaller has got: every step of the call moves it
\* forward.
CallRank ==
    LET c == call[WatchedCaller]
    IN  CASE c.pc = "idle" -> 0
          [] c.pc = "acquire" -> 20 * c.attempt
          [] c.pc = "issuing" -> 20 * c.attempt + 1 + 2 * c.tattempt
          [] c.pc = "token sleep" -> 20 * c.attempt + 2 + 2 * c.tattempt
          [] c.pc = "posting" -> 20 * c.attempt + 10
          [] c.pc = "backoff" -> 20 * c.attempt + 11
          [] c.pc = "done" -> 20 * Attempts

\* C30: a call of gigachat_request during which get_gigachat_token never
\* returns a token sends no completion request and at most 9 requests to the
\* OAuth endpoint, 3 in each of its 3 attempts, and it ends with an error
\* after the third attempt: each of its steps moves the call forward, and a
\* call that has not ended can take a step.
C30_IssuanceAlwaysFails ==
    /\ [](~obs.got =>
            /\ obs.posts = 0
            /\ obs.issues <= TokenAttempts * Attempts
            /\ obs.issues <= TokenAttempts * (call[WatchedCaller].attempt + 1)
            /\ call[WatchedCaller].attempt <= Attempts - 1
            /\ call[WatchedCaller].pc # "posting"
            /\ call[WatchedCaller].pc = "done" =>
                 /\ call[WatchedCaller].result = "error"
                 /\ call[WatchedCaller].attempt = Attempts - 1
                 /\ auth_key => obs.issues = TokenAttempts * Attempts)
    /\ [](CallRank <= 20 * Attempts)
    /\ [](call[WatchedCaller].pc \in {"acquire", "token sleep", "backoff"} =>
            ENABLED (\/ GetToken(WatchedCaller)
                     \/ TokenSleep(WatchedCaller)
                     \/ Backoff(WatchedCaller)))
    /\ [](call[WatchedCaller].pc = "issuing" =>
            ENABLED IssueResponse(WatchedCaller, "timeout"))
    /\ [][(call[WatchedCaller].pc \notin {"idle", "done"} /\ call' # call) =>
            CallRank' > CallRank]_vars

C30_Witness ==
    /\ auth_key
    /\ ~obs.got
    /\ call[WatchedCaller].pc = "done"
    /\ call[WatchedCaller].result = "error"
    /\ call[WatchedCaller].attempt = Attempts - 1
    /\ obs.issues = TokenAttempts * Attempts
    /\ obs.posts = 0
    /\ obs.waited = 1 + 2
    /\ obs.token_waited = Attempts * (1 + 2)

\* --------------------------------- membership cache: classification, frame

\* A step that is a call of check_subscription.
IsMemberCall ==
    \/ ms_ret' # ms_ret
    \/ sub_cache' # sub_cache
    \/ chat_resolve_cache' # chat_resolve_cache

\* C27: a live status check that succeeds returns true and caches a positive
\* entry exactly when the status is member, administrator, creator or
\* restricted; for every other status, or none, it returns false and caches
\* a negative entry; the entry is stamped with the current time.
C27_AllowList ==
    [][(IsMemberCall /\ ms_ret'.live /\ ms_ret'.outcome \in Statuses) =>
        LET key == <<ms_ret'.user, ChatOf(ms_ret'.ref)>>
            allowed == ms_ret'.outcome \in {"member", "administrator", "creator", "restricted"}
        IN  /\ ms_ret'.result = allowed
            /\ sub_cache'[key] = [status |-> allowed, ts |-> clock]
            /\ \A k \in DOMAIN sub_cache : k # key => sub_cache'[k] = sub_cache[k]]_vars

C27_Witness ==
    /\ ms_ret # NoCall
    /\ ms_ret.live
    /\ ms_ret.outcome = "kicked"
    /\ ~ms_ret.result
    /\ ms_ret.before = "expired positive"
    /\ clock >= 1
    /\ sub_cache[<<ms_ret.user, ChatOf(ms_ret.ref)>>] = [status |-> FALSE, ts |-> clock]

\* C28: once "@name" has been resolved, no later call of check_subscription
\* sends another get_chat for it, however much time has passed: the resolved
\* id stays in _CHAT_RESOLVE_CACHE and is read from there; and a call with a
\* numeric reference sends no get_chat.
C28_ResolutionCachedForever ==
    /\ [](ms_ret # NoCall =>
            /\ ms_ret.ref = NumericRef => ms_ret.resolve = "parsed"
            /\ ms_ret.resolve \in {"get_chat", "cached"} =>
                 /\ ms_ret.ref = NameRef
                 /\ chat_resolve_cache[NameRef] = ChatOf(NameRef))
    /\ [][chat_resolve_cache[NameRef] # NoChat =>
            /\ chat_resolve_cache' = chat_resolve_cache
            /\ (IsMemberCall /\ ms_ret'.ref = NameRef) => ms_ret'.resolve = "cached"]_vars

C28_Witness ==
    /\ ms_ret # NoCall
    /\ ms_ret.ref = NameRef
    /\ ms_ret.resolve = "cached"
    /\ ms_ret.live
    /\ ms_ret.before = "expired negative"
    /\ clock = MaxTime

\* The cache after a read of the entry of key at now: an entry older than the
\* TTL is gone, everything else is as it was.
WithoutExpired(cache, key, now) ==
    [k \in DOMAIN cache |->
        IF k = key /\ cache[k] # NoItem /\ now - cache[k].ts > SUB_CACHE_TTL
        THEN NoItem ELSE cache[k]]

\* A step that is a call of check_subscription whose live status check raised.
IsFailedLookup == IsMemberCall /\ ms_ret'.live /\ ms_ret'.outcome \in Raised

\* A call step for the pair of the preceding call, that call being one whose
\* live status check raised.
IsCallAfterFailure ==
    /\ ms_ret # NoCall
    /\ ms_ret.live
    /\ ms_ret.outcome \in Raised
    /\ IsMemberCall
    /\ ms_ret'.before # "unresolved"
    /\ ms_ret'.user = ms_ret.user
    /\ ChatOf(ms_ret'.ref) = ChatOf(ms_ret.ref)

\* C29 as stated: a call whose live status check raises leaves the membership
\* cache as it was, and the next call for the pair makes a live status check
\* unless the pair has a positive entry that has not expired.
C29_FailureLeavesCache ==
    [][/\ IsFailedLookup => sub_cache' = sub_cache
       /\ IsCallAfterFailure => (ms_ret'.live = (ms_ret'.before # "positive"))]_vars

\* C29 as amended: such a call writes no entry and leaves every entry that has
\* not expired as it was; an expired entry of the pair is removed by the read
\* of the cache that comes before the live status check; and the next call
\* for the pair makes a live status check unless the pair has a positive entry
\* that has not expired.
C29_FailureWritesNothing ==
    [][/\ IsFailedLookup =>
            sub_cache' = WithoutExpired(sub_cache, <<ms_ret'.user, ChatOf(ms_ret'.ref)>>, clock)
       /\ IsCallAfterFailure => (ms_ret'.live = (ms_ret'.before # "positive"))]_vars

C29_Witness ==
    /\ ms_ret # NoCall
    /\ ms_ret.live
    /\ ms_ret.outcome = "Forbidden"
    /\ FAIL_OPEN
    /\ ms_ret.result
    /\ ms_ret.before = "negative"
    /\ sub_cache[<<ms_ret.user, ChatOf(ms_ret.ref)>>] # NoItem
    /\ ~sub_cache[<<ms_ret.user, ChatOf(ms_ret.ref)>>].status
    /\ sub_cache[<<ms_ret.user, ChatOf(ms_ret.ref)>>].ts < clock

\* ------------------------------------------------- rate-limit file: frame

\* C31: an admission check of a user that returns, admitted or denied, leaves
\* the entry of every other user in the rate-limit file as it was: the same
\* tokens and the same updated.
C31_OtherUsersUntouched ==
    [][(running # "none" /\ running' = "none" /\ tb_ret' # NoCall) =>
          \A v \in Users \ {running} : rate_state'[v] = rate_state[v]]_vars

\* ------------------------------------------------- orchestrator: frame

\* C32: a request rejected before the limiter (a repeat within 1 second, an
\* empty or too long text, a banned user, a failed membership check) has run
\* no admission check, and no step of it has changed the rate-limit file or
\* debited a token: the file changes only in the step that is the admission
\* check of a request.
C32_RejectedLeavesBucket ==
    /\ [](req.denied \in {"repeat", "input", "access"} =>
            \A i \in 1..Len(req.stages) : req.stages[i] # "rate")
    /\ [][(\/ rate_state' # rate_state
           \/ rate_file' # rate_file
           \/ written' # written
           \/ tb_ret' # tb_ret) =>
              /\ req.pc = "rate"
              /\ req.denied = "none"
              /\ req'.stages = Append(req.stages, "rate")]_vars
    /\ [][(req' # req /\ req'.denied \in {"repeat", "input", "access"}) =>
              /\ rate_state' = rate_state
              /\ rate_file' = rate_file
              /\ tb_ret' = tb_ret]_vars

C32_Witness ==
    /\ req.kind = "text"
    /\ req.denied = "repeat"
    /\ req.stages = <<>>
    /\ user_last_request = clock
    /\ tb_ret # NoCall
    /\ tb_ret.allowed
    /\ rate_state[Watched] # Absent
    /\ rate_state[Watched].tokens = capacity - cost
    /\ rate_state[Watched].updated = clock

====
